---- MODULE Spec2Model ----
(***************************************************************************)
(* A model of milvus/client/pool.py: ConnectionPool, ConnectionRecord,     *)
(* ScopedConnection and Duration, driven by concurrent caller threads.     *)
(*                                                                         *)
(* Every section of the code that runs under self._condition, and every   *)
(* call on the queue.Queue, is one atomic step of the calling thread; the  *)
(* steps of different threads interleave freely.                           *)
(***************************************************************************)
EXTENDS Integers, Sequences, FiniteSets, TLC

\* ------------------------------------------------------------- bounds
NumCallers == 2      \* caller threads
MaxPoolSize == 2     \* pool_size is drawn from 1..MaxPoolSize
MaxHandles == 2      \* concurrent callers call fetch() while fewer handles than this exist
MaxLog == 5          \* calls made in a sequential behaviour
MaxElapsed == 2      \* a Duration's value (end_ts - start_ts) is drawn from 1..MaxElapsed

\* -------------------------------------------------- program constants
DurationCap == 10000 \* record_duration keeps at most this many entries

None == 0            \* Python's None; record, handle and Duration ids start at 1

Callers == 1..NumCallers

VARIABLES
    pool_size,   \* ConnectionPool._pool_size
    handler,     \* the handler keyword passed on to ConnectionRecord
    pool,        \* ConnectionPool._pool, the idle queue.Queue (FIFO of record ids)
    used_conn,   \* ConnectionPool._used_conn
    durations,   \* ConnectionPool.durations: key -> list of Duration ids
    records,     \* every ConnectionRecord constructed: id -> [conn_id]
    handles,     \* every ScopedConnection constructed: id -> [conn, duration, closed]
    ended,       \* the Durations whose end_ts is set (Duration d belongs to handle d)
    pc,          \* each caller's position in fetch() / close()
    blk,         \* each caller's current `block` argument of fetch
    cur,         \* the handle each caller is closing
    frame,       \* history: each caller's last fetch() call
    held,        \* history: per handle, the record it was constructed with
    released,    \* history: per handle, the number of pool.release calls close made
    sequential,  \* the callers make their calls one after the other
    log,         \* history: the calls made, in a sequential behaviour
    recorded     \* history: per key, the Durations passed to record_duration called
                 \* on its own, and those recorded before, in call order

vars == <<pool_size, handler, pool, used_conn, durations, records, handles,
          ended, pc, blk, cur, frame, held, released, sequential, log, recorded>>

config == <<pool_size, handler, sequential>>

\* ------------------------------------------------ ConnectionPool helpers

\* an _empty() that looks at the idle queue only
Empty_QueueOnly(q, u) == Len(q) <= 0

\* _empty(): no idle record and no used connection
Empty(q, u) == Len(q) <= 0 /\ u <= 0

\* _full() off by one: full one connection early
Full_OffByOne(u, size) == u + 1 >= size

\* _full()
Full(u, size) == u >= size

\* an _inc_used() that does not test the capacity
CanIncUsed_Unchecked(u, size) == TRUE

\* the test of _inc_used() off by one: <= for <
CanIncUsed_OffByOne(u, size) == u <= size

\* the test of _inc_used()
CanIncUsed(u, size) == u < size

\* queue.Queue.put(conn, False) on the unbounded queue made by queue.Queue()
QueuePut(q, c) == Append(q, c)

\* a get() that takes the newest record (a LIFO queue)
QueueFront_Last(q) == q[Len(q)]

\* queue.Queue.get(): the record returned, and the queue it leaves
QueueFront(q) == Head(q)
QueueRest(q) == Tail(q)

\* count(), lines 136-138
Count(u) == u

\* an activate_count() that forgets the idle records
ActivateCount_NoIdle(u, q) == u

\* activate_count(), lines 140-142
ActivateCount(u, q) == u - Len(q)

\* the handler keywords tried: the default, and one that is neither GRPC nor HTTP
Handlers == {"GRPC", "TCP"}

\* ConnectionRecord(uri, recycle, conn_id=self._used_conn - 1, **kw)
HandlerOk(kind) == kind \in {"GRPC", "HTTP"}
NewRecord(u) == [conn_id |-> u - 1]

\* ScopedConnection(pool, connection); its Duration gets the handle's id
NewScoped(c, d) == [conn |-> c, duration |-> d, closed |-> FALSE]

\* ------------------------------------------------------- call history

FetchSteps == {"fetch", "get", "wait", "full", "inc", "create"}
CloseSteps == {"stop", "rd_pop", "rd_append"}

NoCall ==
    [block |-> FALSE, out |-> "none", h |-> None, rec |-> None, new |-> FALSE,
     waited |-> FALSE, rel |-> FALSE, exhausted |-> FALSE, retried |-> FALSE]

\* A fetch() call as the caller sees it, with the pool as it was at the call.
NewCall(b) ==
    [block   |-> b,            \* the caller's `block` argument
     out     |-> "pending",    \* "pending", "handle", "PoolExhausted", "ValueError"
     h       |-> None,         \* the handle returned
     rec     |-> None,         \* and its record
     new     |-> FALSE,        \* the call constructed that ConnectionRecord
     waited  |-> FALSE,        \* a get(block=True) found the queue empty and waited
     rel     |-> FALSE,        \* a pool.release ran while the call was pending
     retried |-> FALSE,        \* the call has re-entered fetch(block=True)
     exhausted |-> Full(used_conn, pool_size) /\ Len(pool) = 0]
                               \* at the call the pool was full with no idle record

\* the frames with every pending call marked as having seen a release
SawRelease(fs) ==
    [t \in Callers |-> IF pc[t] \in FetchSteps THEN [fs[t] EXCEPT !.rel = TRUE] ELSE fs[t]]

\* the frame of a call that has returned a handle: what the caller gave and got
Returned(f, hid, c, isNew) ==
    [NoCall EXCEPT !.block = f.block, !.waited = f.waited,
                   !.out = "handle", !.h = hid, !.rec = c, !.new = isNew]

\* the frame of a call that has raised: the call as it was, with the error
Failed(f, err) == [f EXCEPT !.out = err, !.retried = FALSE]

\* an entry of the log: a call that has returned or raised, and the pool it leaves
\* (idle queue q, stats store ds, n records constructed)
Event(op, b, outcome, hid, c, isNew, q, ds, n) ==
    [op |-> op, block |-> b, out |-> outcome, h |-> hid, rec |-> c, new |-> isNew,
     used |-> used_conn, pool |-> q, durations |-> ds, nrec |-> n]

Logged(ev) == IF sequential THEN Append(log, ev) ELSE log

\* a caller may start a call; in a sequential behaviour caller 1 makes every call
MayCall(t) ==
    /\ pc[t] = "idle"
    /\ sequential => t = 1 /\ Len(log) < MaxLog

\* --------------------------------------------------------------- Init

InitPool ==
    /\ pool_size \in 0..MaxPoolSize
    /\ handler \in Handlers
    /\ pool = <<>>
    /\ used_conn = 0
    /\ records = <<>>
    /\ handles = <<>>
    /\ ended = {}
    /\ pc = [t \in Callers |-> "idle"]
    /\ blk = [t \in Callers |-> FALSE]
    /\ cur = [t \in Callers |-> None]
    /\ frame = [t \in Callers |-> NoCall]
    /\ held = <<>>
    /\ released = <<>>
    /\ log = <<>>

\* a pool whose stats store is empty
EmptyStore ==
    /\ durations = [k \in {} |-> <<>>]
    /\ recorded = durations

\* the history of a key after n record_duration calls, none of them at the cap:
\* the Durations of n handles closed earlier, -n (the oldest) to -1
Filled(n) == [i \in 1..n |-> i - n - 1]

\* the stats store after n[k] such calls for each key k
StoreOf(n) == [k \in {x \in DOMAIN n : n[x] > 0} |-> Filled(n[k])]

\* the numbers of earlier calls tried: none, and up to the cap
Prefill == {0, DurationCap - 1, DurationCap}

Init ==
    InitPool /\ EmptyStore /\ sequential = FALSE /\ pool_size >= 1 /\ handler = "GRPC"

InitSeq ==
    InitPool /\ EmptyStore /\ sequential = TRUE /\ pool_size >= 1 /\ handler = "GRPC"

\* any pool_size and handler keyword the constructor accepts (it checks neither)
InitAPI == InitPool /\ EmptyStore /\ sequential = TRUE

\* a pool on which record_duration has been called before, for the keys None and
\* record 1
InitRecord ==
    /\ InitPool /\ sequential = TRUE /\ pool_size >= 1 /\ handler = "GRPC"
    /\ durations \in {StoreOf(n) : n \in [{None, 1} -> Prefill]}
    /\ recorded = durations

\* a pool whose handles, closed earlier, have left the history of the key None
\* (the key close() records under) one short of the cap, or at it
InitCap ==
    /\ InitPool /\ sequential = FALSE /\ pool_size >= 1 /\ handler = "GRPC"
    /\ durations \in {StoreOf(n) : n \in [{None} -> Prefill \ {0}]}
    /\ recorded = durations

\* -------------------------------------------------------------- fetch

\* a caller calls fetch(block=b); line 145: if self._empty(): return self._inc_connection()
Fetch(t, b) ==
    /\ MayCall(t)
    /\ sequential \/ Len(handles) + Cardinality({u \in Callers : pc[u] \in FetchSteps}) < MaxHandles
    /\ frame' = [frame EXCEPT ![t] = NewCall(b)]
    /\ blk' = [blk EXCEPT ![t] = b]
    /\ pc' = [pc EXCEPT ![t] = IF Empty(pool, used_conn) THEN "inc" ELSE "get"]
    /\ UNCHANGED <<config, recorded, pool, used_conn, durations, records, handles, ended, cur,
                   held, released, log>>

\* line 145 again, in the self.fetch(block=True) of lines 112 and 156
FetchEmpty(t) ==
    /\ pc[t] = "fetch"
    /\ pc' = [pc EXCEPT ![t] = IF Empty(pool, used_conn) THEN "inc" ELSE "get"]
    /\ UNCHANGED <<config, recorded, pool, used_conn, durations, records, handles, ended,
                   blk, cur, frame, held, released, log>>

\* the caller's fetch returns the ScopedConnection wrapping record c, leaving q idle
ReturnScoped(t, c, isNew, q) ==
    LET hid == Len(handles) + 1 IN
    /\ handles' = Append(handles, NewScoped(c, hid))
    /\ held' = Append(held, c)
    /\ released' = Append(released, 0)
    /\ frame' = [frame EXCEPT ![t] = Returned(@, hid, c, isNew)]
    /\ log' = Logged(Event("fetch", frame[t].block, "handle", hid, c, isNew, q,
                            durations, IF isNew THEN Len(records) + 1 ELSE Len(records)))
    /\ pc' = [pc EXCEPT ![t] = "idle"]

\* the caller's fetch raises
Raise(t, err) ==
    /\ frame' = [frame EXCEPT ![t] = Failed(@, err)]
    /\ log' = Logged(Event("fetch", frame[t].block, err, None, None, FALSE, pool,
                            durations, Len(records)))
    /\ pc' = [pc EXCEPT ![t] = "idle"]

\* fetch, lines 148-153: conn = self._pool.get(block=block, timeout=self._wait_timeout)
\* with an item in the queue, get returns it (at once, or when a put has woken the
\* waiting get); without one, get raises queue.Empty when block is false and starts
\* to wait when block is true
PoolGet(t) ==
    /\ pc[t] \in {"get", "wait"}
    /\ pc[t] = "wait" => Len(pool) > 0
    /\ IF Len(pool) > 0
       THEN /\ pool' = QueueRest(pool)
            /\ ReturnScoped(t, QueueFront(pool), FALSE, QueueRest(pool))
       ELSE /\ pool' = pool
            /\ frame' = IF blk[t] THEN [frame EXCEPT ![t].waited = TRUE] ELSE frame
            /\ pc' = [pc EXCEPT ![t] = IF blk[t] THEN "wait" ELSE "full"]
            /\ UNCHANGED <<handles, held, released, log>>
    /\ UNCHANGED <<config, recorded, used_conn, durations, records, ended, blk, cur>>

\* a get(block=True) that waits finds the queue still empty when wait_timeout has
\* passed: queue.Empty, and fetch raises ConnectionPoolError (lines 151-153)
PoolGetTimeout(t) ==
    /\ pc[t] = "wait"
    /\ Len(pool) = 0
    /\ Raise(t, "PoolExhausted")
    /\ UNCHANGED <<config, recorded, pool, used_conn, durations, records, handles, ended,
                   blk, cur, held, released>>

\* fetch, lines 155-158: if self._full(): return self.fetch(block=True)
FetchFull(t) ==
    /\ pc[t] = "full"
    /\ IF Full(used_conn, pool_size)
       THEN /\ pc' = [pc EXCEPT ![t] = "fetch"]
            /\ blk' = [blk EXCEPT ![t] = TRUE]
            /\ frame' = [frame EXCEPT ![t].retried = TRUE]
       ELSE /\ pc' = [pc EXCEPT ![t] = "inc"]
            /\ UNCHANGED <<blk, frame>>
    /\ UNCHANGED <<config, recorded, pool, used_conn, durations, records, handles, ended,
                   cur, held, released, log>>

\* _inc_connection, lines 108-112, with _inc_used, lines 80-86
IncConnection(t) ==
    /\ pc[t] = "inc"
    /\ IF CanIncUsed(used_conn, pool_size)
       THEN /\ used_conn' = used_conn + 1
            /\ pc' = [pc EXCEPT ![t] = "create"]
            /\ UNCHANGED <<blk, frame>>
       ELSE /\ used_conn' = used_conn
            /\ pc' = [pc EXCEPT ![t] = "fetch"]
            /\ blk' = [blk EXCEPT ![t] = TRUE]
            /\ frame' = [frame EXCEPT ![t].retried = TRUE]
    /\ UNCHANGED <<config, recorded, pool, durations, records, handles, ended, cur,
                   held, released, log>>

\* _create_connection, lines 103-106
CreateConnection(t) ==
    /\ pc[t] = "create"
    /\ IF HandlerOk(handler)
       THEN /\ records' = Append(records, NewRecord(used_conn))
            /\ ReturnScoped(t, Len(records) + 1, TRUE, pool)
       ELSE /\ Raise(t, "ValueError")
            /\ UNCHANGED <<records, handles, held, released>>
    /\ UNCHANGED <<config, recorded, pool, used_conn, durations, ended, blk, cur>>

\* -------------------------------------------------- ScopedConnection.close

\* some caller is executing close() on handle h
Closing(h) == \E t \in Callers : pc[t] \in CloseSteps /\ cur[t] = h

\* a release that puts the record twice
Release_Twice(q, c) == QueuePut(QueuePut(q, c), c)

\* ConnectionPool.release(conn), lines 160-164: put never raises queue.Full on the
\* unbounded queue
Release(q, c) == QueuePut(q, c)

\* a close that keeps its reference to the record
ClearConnection_Keep(hd) == hd

\* close, line 198: self._connection = None
ClearConnection(hd) == [hd EXCEPT !.conn = None]

\* close, lines 202-203: self._duration = None; self._closed = True
Closed(hd) == [hd EXCEPT !.duration = None, !.closed = TRUE]

\* Duration.stop(), lines 18-23: end_ts is set unless it is set already
Stop(e, d) == e \cup {d}

\* close, line 201: the arguments of self._pool.record_duration(self._connection,
\* self._duration), read from the handle as it is when that line runs
DurationKey(hd) == hd.conn
DurationArg(hd) == hd.duration

\* self.durations[conn] of a defaultdict(list): a missing key is created empty
Touch(ds, k) == [x \in DOMAIN ds \cup {k} |-> IF x \in DOMAIN ds THEN ds[x] ELSE <<>>]

\* an at-the-cap test off by one: > for >=
AtCap_OffByOne(ds, k) == Len(ds[k]) > DurationCap

\* record_duration, line 115: len(self.durations[conn]) >= 10000
AtCap(ds, k) == Len(ds[k]) >= DurationCap

\* A caller calls close() on a handle (or drops its last reference: __del__ calls
\* close()). A handle is used by one caller at a time: the calls made on one handle
\* do not overlap, so the fields of a handle are read and written by one thread at
\* a time, and the steps of close() are the ones that touch the pool.
\* This step is line 197: self._connection and self._pool.release(self._connection).
\* On a handle with no Duration left the rest of close (lines 198-203) touches the
\* handle only, and close returns in this step.
Close(t, h) ==
    LET hd == handles[h]
        q  == IF hd.conn # None THEN Release(pool, hd.conn) ELSE pool
    IN
    /\ MayCall(t)
    /\ ~Closing(h)
    /\ pool' = q
    /\ IF hd.conn # None
       THEN /\ released' = [released EXCEPT ![h] = @ + 1]
            /\ frame' = SawRelease(frame)
       ELSE UNCHANGED <<released, frame>>
    /\ IF hd.duration # None
       THEN /\ pc' = [pc EXCEPT ![t] = "stop"]
            /\ cur' = [cur EXCEPT ![t] = h]
            /\ UNCHANGED <<handles, log>>
       ELSE /\ handles' = [handles EXCEPT ![h] = Closed(ClearConnection(hd))]
            /\ log' = Logged(Event("close", FALSE, "closed", h, held[h], FALSE, q,
                                    durations, Len(records)))
            /\ UNCHANGED <<pc, cur>>
    /\ UNCHANGED <<config, recorded, used_conn, durations, records, ended, blk, held>>

\* close, lines 198-201, up to the test of record_duration (line 115)
CloseStop(t) ==
    LET h   == cur[t]
        hd  == ClearConnection(handles[h])
        key == DurationKey(hd)
        ds  == Touch(durations, key)
    IN
    /\ pc[t] = "stop"
    /\ handles' = [handles EXCEPT ![h] = hd]
    /\ ended' = Stop(ended, hd.duration)
    /\ durations' = ds
    /\ pc' = [pc EXCEPT ![t] = IF AtCap(ds, key) THEN "rd_pop" ELSE "rd_append"]
    /\ UNCHANGED <<config, recorded, pool, used_conn, records, blk, cur, frame, held,
                   released, log>>

\* record_duration, line 116 (pop(0)), then line 118 (append) after which close
\* ends with lines 202-203
RecordDuration(t) ==
    LET h   == cur[t]
        key == DurationKey(handles[h])
        ds  == Touch(durations, key)
    IN
    /\ pc[t] \in {"rd_pop", "rd_append"}
    /\ IF pc[t] = "rd_pop"
       THEN /\ Len(ds[key]) > 0
            /\ durations' = [ds EXCEPT ![key] = Tail(@)]
            /\ pc' = [pc EXCEPT ![t] = "rd_append"]
            /\ UNCHANGED <<handles, cur, log>>
       ELSE /\ durations' = [ds EXCEPT ![key] = Append(@, DurationArg(handles[h]))]
            /\ handles' = [handles EXCEPT ![h] = Closed(@)]
            /\ log' = Logged(Event("close", FALSE, "closed", h, held[h], FALSE, pool,
                                    [ds EXCEPT ![key] = Append(@, DurationArg(handles[h]))],
                                    Len(records)))
            /\ pc' = [pc EXCEPT ![t] = "idle"]
            /\ cur' = [cur EXCEPT ![t] = None]
    /\ UNCHANGED <<config, recorded, pool, used_conn, records, ended, blk, frame, held, released>>

\* ----------------------------------------------- uses of a ScopedConnection

Raised(err) == [err |-> err, val |-> None]
Value(v) == [err |-> "none", val |-> v]

\* connection(), lines 183-187
Connection(hd) ==
    IF hd.closed THEN Raised("ValueError") ELSE Value(hd.conn)

\* client(), lines 189-191: the handler of the record connection() returns
\* (ConnectionRecord.connection, lines 53-59, with pre_ping unset), named by its record
Client(hd) ==
    LET conn == Connection(hd) IN
    IF conn.err # "none" THEN conn ELSE Value(conn.val)

\* __getattr__, lines 174-175: getattr(self.client(), item), an attribute of that handler
GetAttr(hd) == Client(hd)

\* conn_id(), lines 193-194: self._connection._conn_id
ConnId(hd) ==
    IF hd.conn = None THEN Raised("AttributeError") ELSE Value(records[hd.conn].conn_id)

Ops == {"connection", "client", "getattr", "conn_id"}

Result(op, hd) ==
    CASE op = "connection" -> Connection(hd)
      [] op = "client"     -> Client(hd)
      [] op = "getattr"    -> GetAttr(hd)
      [] op = "conn_id"    -> ConnId(hd)

\* a caller uses a handle that no caller is closing
Use(t, h, op) ==
    LET r == Result(op, handles[h]) IN
    /\ MayCall(t)
    /\ ~Closing(h)
    /\ log' = Logged(Event(op, FALSE, r.err, h, r.val, FALSE, pool, durations,
                            Len(records)))
    /\ UNCHANGED <<config, recorded, pool, used_conn, durations, records, handles, ended, pc,
                   blk, cur, frame, held, released>>

\* record_duration(conn, duration), lines 114-118, as one call: the store it leaves
RecordDurationOn(ds, k, d) ==
    LET touched == Touch(ds, k)
        evicted == IF AtCap(touched, k)
                   THEN [touched EXCEPT ![k] = Tail(@)]
                   ELSE touched
    IN  [evicted EXCEPT ![k] = Append(@, d)]

\* a caller calls record_duration(k, d) itself, d a Duration not recorded before
RecordDurationCall(t, k) ==
    LET d == Len(log) + 1 IN
    /\ MayCall(t)
    /\ durations' = RecordDurationOn(durations, k, d)
    /\ recorded' = [Touch(recorded, k) EXCEPT ![k] = Append(@, d)]
    /\ log' = Append(log, [op |-> "record_duration", key |-> k, d |-> d])
    /\ UNCHANGED <<config, pool, used_conn, records, handles, ended, pc, blk, cur,
                   frame, held, released>>

\* ---------------------------------------------------------------- stats

\* the Durations in the stats store
Stored(ds) == UNION {{ds[k][i] : i \in DOMAIN ds[k]} : k \in DOMAIN ds}

\* stats, line 125, with a total that keeps the last value only
TotalTime_Last(durs, val) ==
    IF durs = <<>> THEN 0 ELSE val[durs[Len(durs)]]

\* stats, line 125: total_time = sum(d.value for d in durations)
RECURSIVE TotalTime(_, _)
TotalTime(durs, val) ==
    IF durs = <<>> THEN 0 ELSE val[Head(durs)] + TotalTime(Tail(durs), val)

\* max() of a non-empty collection of numbers
MaxOf(S) == CHOOSE x \in S : \A y \in S : y <= x

\* stats(), lines 120-134, on the store ds whose Durations have the values val;
\* max() of an empty list raises ValueError (line 132)
Stats(ds, val) ==
    LET connections == [k \in DOMAIN ds |->
                           [total_time |-> TotalTime(ds[k], val),
                            called_times |-> Len(ds[k])]]
        take_time == {connections[k].total_time : k \in DOMAIN ds}
    IN  IF take_time = {}
        THEN Raised("ValueError")
        ELSE Value([connections |-> connections,
                    max_time |-> MaxOf(take_time),
                    num |-> Cardinality(DOMAIN ds)])

\* a caller calls stats(); the values of the stopped Durations it reads are val
StatsCall(t) ==
    \E val \in [Stored(durations) -> 1..MaxElapsed] :
        LET r == Stats(durations, val) IN
        /\ MayCall(t)
        /\ log' = Logged(Event("stats", FALSE, r.err, None, None, FALSE, pool,
                                durations, Len(records))
                          @@ [result |-> r.val, value |-> val])
        /\ UNCHANGED <<config, recorded, pool, used_conn, durations, records, handles, ended,
                       pc, blk, cur, frame, held, released>>

\* a caller calls the public release(conn) itself, with a record of the pool
ReleaseCall(t, c) ==
    /\ MayCall(t)
    /\ pool' = Release(pool, c)
    /\ frame' = SawRelease(frame)
    /\ log' = Logged(Event("release", FALSE, "none", None, c, FALSE, Release(pool, c),
                            durations, Len(records)))
    /\ UNCHANGED <<config, recorded, used_conn, durations, records, handles, ended, pc, blk,
                   cur, held, released>>

\* ------------------------------------------------------ specification

Next ==
    \/ \E t \in Callers, b \in BOOLEAN : Fetch(t, b)
    \/ \E t \in Callers : FetchEmpty(t)
    \/ \E t \in Callers : PoolGet(t)
    \/ \E t \in Callers : PoolGetTimeout(t)
    \/ \E t \in Callers : FetchFull(t)
    \/ \E t \in Callers : IncConnection(t)
    \/ \E t \in Callers : CreateConnection(t)
    \/ \E t \in Callers : \E h \in DOMAIN handles : Close(t, h)
    \/ \E t \in Callers : CloseStop(t)
    \/ \E t \in Callers : RecordDuration(t)

NextSeq ==
    \/ Next
    \/ \E t \in Callers : \E h \in DOMAIN handles : \E op \in Ops : Use(t, h, op)

\* concurrent callers of fetch() and close()
Spec == Init /\ [][Next]_vars

\* callers that make their calls one after the other, with the log of the calls
SpecSeq == InitSeq /\ [][NextSeq]_vars

NextStats ==
    \/ NextSeq
    \/ \E t \in Callers : StatsCall(t)

\* calls made one after the other, the calls of stats() included
SpecStats == InitSeq /\ [][NextStats]_vars

NextRecord ==
    \E t \in Callers : \E k \in {None, 1} : RecordDurationCall(t, k)

\* record_duration called on its own, one call after the other
SpecRecord == InitRecord /\ [][NextRecord]_vars

\* concurrent callers of fetch() and close() on a pool whose history is at the cap
SpecCap == InitCap /\ [][Next]_vars

NextAPI ==
    \/ NextSeq
    \/ \E t \in Callers : \E c \in DOMAIN records : ReleaseCall(t, c)

\* calls made one after the other on a pool built with any pool_size and handler,
\* the direct calls of release included
SpecAPI == InitAPI /\ [][NextAPI]_vars

TypeOK ==
    /\ used_conn \in 0..(pool_size + NumCallers)
    /\ \A i \in DOMAIN handles : handles[i].conn \in 0..Len(records)

\* ------------------------------------------------------------ properties

\* handle h is open: it holds a record and no close() has been called on it
Open(h) == ~handles[h].closed /\ handles[h].conn # None /\ ~Closing(h)

\* the pool before the i-th call of the log
Before(i) ==
    IF i = 1
    THEN [used |-> 0, pool |-> <<>>, durations |-> [k \in {} |-> <<>>], nrec |-> 0]
    ELSE log[i - 1]

\* the i-th call of the log is a close() of a handle closed before
ClosedBefore(i) == \E j \in 1..(i - 1) : log[j].op = "close" /\ log[j].h = log[i].h

\* the first n calls of the log are fetch(block=False)
NonBlockingFetches(n) ==
    /\ Len(log) >= n
    /\ \A i \in 1..n : log[i].op = "fetch" /\ ~log[i].block

\* C1: under every interleaving of fetch and close calls of the concurrent
\* callers, 0 <= _used_conn <= pool_size, and at most pool_size
\* ConnectionRecords are ever constructed.
C1_InUseBounded ==
    /\ 0 <= used_conn
    /\ used_conn <= pool_size
    /\ Len(records) <= pool_size

\* C1: the pool is full, every record exists, and a fetch has been turned away
C1_Witness ==
    /\ used_conn = pool_size
    /\ Len(records) = pool_size
    /\ \E t \in Callers : frame[t].out = "PoolExhausted"

\* C2: under every interleaving, a ConnectionRecord is held by at most one open
\* ScopedConnection, and a record held by an open handle is not in the idle queue.
C2_ExclusiveRecord ==
    /\ \A h1, h2 \in DOMAIN handles :
          Open(h1) /\ Open(h2) /\ handles[h1].conn = handles[h2].conn => h1 = h2
    /\ \A h \in DOMAIN handles :
          Open(h) => \A i \in DOMAIN pool : pool[i] # handles[h].conn

\* C2: a record released by a close() still in progress has been fetched again
C2_Witness ==
    \E h1, h2 \in DOMAIN handles :
        /\ Closing(h1)
        /\ ~handles[h1].closed
        /\ Open(h2)
        /\ handles[h1].conn = handles[h2].conn

\* C3: in a sequence of calls, the first close() of a handle puts its record into
\* the idle queue once, every later close() of it leaves the idle queue,
\* _used_conn and the stats store as they were, and so pool.release is called
\* exactly once per closed handle.
C3_CloseOnce ==
    /\ \A i \in DOMAIN log :
          log[i].op = "close" =>
              IF ClosedBefore(i)
              THEN /\ log[i].pool = Before(i).pool
                   /\ log[i].used = Before(i).used
                   /\ log[i].durations = Before(i).durations
              ELSE /\ log[i].pool = Append(Before(i).pool, held[log[i].h])
                   /\ log[i].used = Before(i).used
    /\ \A h \in DOMAIN handles :
          /\ released[h] <= 1
          /\ handles[h].closed => released[h] = 1

\* C3: a handle has been closed twice
C3_Witness ==
    \E i \in DOMAIN log : log[i].op = "close" /\ ClosedBefore(i)

\* C4: every use, other than close(), of a handle closed before fails with the
\* "already closed" error (the ValueError of connection()).
C4_UseAfterClose ==
    \A i \in DOMAIN log :
        log[i].op \in Ops /\ ClosedBefore(i) => log[i].out = "ValueError"

\* C5: a fetch(block=False) called on a full pool with an empty idle queue never
\* waits on the idle queue.
C5_NonBlockingNeverWaits ==
    \A t \in Callers :
        frame[t].out = "pending" /\ ~frame[t].block /\ frame[t].exhausted
            => pc[t] # "wait"

\* C6: a fetch(block=True) called on a full pool with an empty idle queue, during
\* which no handle releases a record, only gets from the idle queue and waits,
\* with _used_conn at pool_size and the idle queue empty all along, and it ends
\* with PoolExhausted, leaving _used_conn, the idle queue and the records as they
\* were.
C6_TimeoutLeavesPool ==
    [][\A t \in Callers :
          /\ frame'[t].out = "pending" /\ frame'[t].block
                /\ frame'[t].exhausted /\ ~frame'[t].rel
             => /\ pc'[t] \in {"get", "wait"}
                /\ used_conn' = pool_size
                /\ pool' = <<>>
          /\ frame[t].out = "pending" /\ frame[t].block
                /\ frame[t].exhausted /\ ~frame[t].rel
                /\ frame'[t].out # "pending"
             => /\ frame[t].waited
                /\ frame'[t].out = "PoolExhausted"
                /\ used_conn' = used_conn
                /\ pool' = pool
                /\ records' = records]_vars

\* C6: such a fetch has raised PoolExhausted
C6_Witness ==
    \E t \in Callers :
        /\ frame[t].out = "PoolExhausted"
        /\ frame[t].block
        /\ frame[t].exhausted
        /\ ~frame[t].rel
        /\ used_conn = pool_size
        /\ pool = <<>>

\* C7: with pool_size = 1, at most one handle is open at a time; a later handle
\* is obtained only after the close() of the handle before it has released the
\* record, and it is on that same record; a waiting fetch that finds the
\* released record in the queue returns a handle on it; one ConnectionRecord is
\* ever constructed and _used_conn stays at most 1.
C7_CapacityOne ==
    [][pool_size = 1 =>
          /\ Cardinality({h \in DOMAIN handles' : Open(h)'}) <= 1
          /\ \A h \in DOMAIN handles' :
                h > 1 => held'[h] = held'[1] /\ released'[h - 1] = 1
          /\ Len(records') <= 1
          /\ used_conn' <= 1
          /\ \A t \in Callers :
                pc[t] = "wait" /\ Len(pool) > 0 /\ pc'[t] # "wait"
                    => /\ frame'[t].out = "handle"
                       /\ frame'[t].rec = held'[1]
                       /\ ~frame'[t].new]_vars

\* C7: B's fetch(block=True) waited while A's handle was open and, after A's
\* close(), returned a handle on A's record
C7_Witness ==
    /\ pool_size = 1
    /\ Len(handles) = 2
    /\ \E t \in Callers :
          /\ frame[t].out = "handle"
          /\ frame[t].block
          /\ frame[t].waited
          /\ frame[t].h = 2
          /\ frame[t].rec = held[1]
    /\ Len(records) = 1
    /\ used_conn = 1

\* C8: with pool_size = 2, of three fetch(block=False) calls made in sequence
\* with no close in between, the first two each return a handle on a newly
\* constructed record (_used_conn 1, then 2) and the third raises PoolExhausted
\* with _used_conn still 2 and two records constructed.
C8_ThreeFetches ==
    pool_size = 2 =>
        /\ NonBlockingFetches(1) =>
              /\ log[1].out = "handle"
              /\ log[1].new
              /\ log[1].used = 1
        /\ NonBlockingFetches(2) =>
              /\ log[2].out = "handle"
              /\ log[2].new
              /\ log[2].rec # log[1].rec
              /\ log[2].used = 2
        /\ NonBlockingFetches(3) =>
              /\ log[3].out = "PoolExhausted"
              /\ log[3].used = 2
              /\ log[3].nrec = 2

\* C8: the three calls have been made
C8_Witness == pool_size = 2 /\ NonBlockingFetches(3)

\* C9: in a sequence of calls, a fetch called with a non-empty idle queue returns
\* a handle on the record at the head of the queue, constructs no record and
\* leaves _used_conn as it was.
C9_ReuseHead ==
    \A i \in DOMAIN log :
        log[i].op = "fetch" /\ Len(Before(i).pool) > 0 =>
            /\ log[i].out = "handle"
            /\ log[i].rec = Head(Before(i).pool)
            /\ ~log[i].new
            /\ log[i].nrec = Before(i).nrec
            /\ log[i].used = Before(i).used
            /\ log[i].pool = Tail(Before(i).pool)

\* C9: a fetch has been served from an idle queue of two records whose head is not
\* the record constructed first
C9_Witness ==
    \E i \in DOMAIN log :
        /\ log[i].op = "fetch"
        /\ Len(Before(i).pool) = 2
        /\ Head(Before(i).pool) = 2
        /\ log[i].rec = 2

\* no fetch and no close is in progress
Quiescent == \A t \in Callers : pc[t] = "idle"

\* the positions of record c in the idle queue
IdleAt(c) == {i \in DOMAIN pool : pool[i] = c}

\* the handles that hold record c and have not been closed
Holders(c) == {h \in DOMAIN handles : ~handles[h].closed /\ handles[h].conn = c}

\* C10: the Duration of a closed handle is in the stats history kept under the
\* key of the record the handle held.
C10_DurationUnderRecord ==
    \A h \in DOMAIN handles :
        handles[h].closed =>
            /\ held[h] \in DOMAIN durations
            /\ \E i \in DOMAIN durations[held[h]] : durations[held[h]][i] = h

\* C11: at every quiescent point the idle queue size plus _used_conn is at most
\* pool_size.
C11_IdlePlusUsed ==
    Quiescent => Len(pool) + Count(used_conn) <= pool_size

\* C14: count() is _used_conn and activate_count() is _used_conn minus the idle
\* queue size; at every quiescent point activate_count() is >= 0 and is the number
\* of handles not closed, and every record constructed is either once in the idle
\* queue or held by exactly one handle that is not closed.
C14_ActiveCount ==
    /\ Count(used_conn) = used_conn
    /\ Quiescent =>
          /\ ActivateCount(used_conn, pool) >= 0
          /\ ActivateCount(used_conn, pool)
                = Cardinality({h \in DOMAIN handles : ~handles[h].closed})
          /\ \A c \in DOMAIN records :
                \/ Cardinality(IdleAt(c)) = 1 /\ Holders(c) = {}
                \/ Cardinality(IdleAt(c)) = 0 /\ Cardinality(Holders(c)) = 1

\* C14: a quiescent point with one record idle and another held by an open handle
C14_Witness ==
    /\ Quiescent
    /\ Len(pool) = 1
    /\ ActivateCount(used_conn, pool) = 1
    /\ \E h \in DOMAIN handles : handles[h].closed
    /\ \E h \in DOMAIN handles : ~handles[h].closed /\ handles[h].conn # pool[1]

\* C18: a fetch raises PoolExhausted only with _used_conn = pool_size.
C18_ExhaustedOnlyWhenFull ==
    [][\A t \in Callers :
          frame'[t].out = "PoolExhausted" /\ frame[t].out = "pending"
              => used_conn = pool_size]_vars

\* C20: the ConnectionRecords of a pool have distinct conn_ids.
C20_DistinctConnId ==
    \A i, j \in DOMAIN records :
        records[i].conn_id = records[j].conn_id => i = j

\* the last n entries of sequence q
LastN(q, n) == SubSeq(q, Len(q) - n + 1, Len(q))

\* C12: in a sequence of record_duration calls the history of a key never holds
\* more than the cap of 10,000 entries, and it is the most recent (up to the cap)
\* Durations recorded under the key, in the order they were recorded.
C12_HistoryCapped ==
    /\ DOMAIN durations = DOMAIN recorded
    /\ \A k \in DOMAIN durations :
          /\ Len(durations[k]) <= DurationCap
          /\ durations[k] = LastN(recorded[k],
                                  IF Len(recorded[k]) <= DurationCap
                                  THEN Len(recorded[k]) ELSE DurationCap)

\* C12: calls made at the cap have evicted the oldest entries of a history
C12_Witness ==
    \E k \in DOMAIN durations :
        /\ Len(recorded[k]) >= DurationCap + 2
        /\ Len(durations[k]) = DurationCap

\* C16: under every interleaving of concurrent close() calls no history of the
\* stats store holds more than the cap of 10,000 entries.
C16_CapUnderConcurrency ==
    \A k \in DOMAIN durations : Len(durations[k]) <= DurationCap

\* the sum of the values val of the Durations at the positions I of history durs
RECURSIVE SumAt(_, _, _)
SumAt(durs, val, I) ==
    IF I = {} THEN 0
    ELSE LET i == CHOOSE x \in I : TRUE
         IN  val[durs[i]] + SumAt(durs, val, I \ {i})

\* C13: in a sequence of calls, stats() leaves the pool as it was; called before
\* any handle was closed it raises (the ValueError of max() on an empty list);
\* called after a close it returns a result whose num is the number of keys of
\* the stats store and whose max-time is the largest of the per-key sums of the
\* Durations' values.
C13_Stats ==
    \A i \in DOMAIN log :
        log[i].op = "stats" =>
            /\ log[i].pool = Before(i).pool
            /\ log[i].used = Before(i).used
            /\ log[i].durations = Before(i).durations
            /\ log[i].nrec = Before(i).nrec
            /\ IF \A j \in 1..(i - 1) : log[j].op # "close"
               THEN log[i].out = "ValueError"
               ELSE LET ds  == log[i].durations
                        val == log[i].value
                        tot == [k \in DOMAIN ds |-> SumAt(ds[k], val, DOMAIN ds[k])]
                    IN  /\ log[i].out = "none"
                        /\ log[i].result.num = Cardinality(DOMAIN ds)
                        /\ \A k \in DOMAIN ds : tot[k] <= log[i].result.max_time
                        /\ \E k \in DOMAIN ds : tot[k] = log[i].result.max_time

\* C13: stats() has raised on the fresh pool and, after a close, returned a result
C13_Witness ==
    \E i, j \in DOMAIN log :
        /\ log[i].op = "stats" /\ log[i].out = "ValueError"
        /\ log[j].op = "stats" /\ log[j].out = "none"
        /\ log[j].result.num = 1

\* C15: after any sequence of fetch, close and direct release(record) calls the
\* idle queue holds at most pool_size records.
C15_IdleAtMostCapacity ==
    Len(pool) <= pool_size

\* C17: a fetch call re-enters fetch(block=True) at most once.
C17_RetriesOnce ==
    [][\A t \in Callers :
          pc'[t] = "fetch" /\ pc[t] # "fetch" => ~frame[t].retried]_vars

\* C19: a fetch that fails because the construction of the ConnectionRecord raises
\* leaves _used_conn as it was before the call.
C19_FailedConstruction ==
    \A i \in DOMAIN log :
        log[i].op = "fetch" /\ log[i].out = "ValueError"
            => log[i].used = Before(i).used

====
